---- MODULE Spec2Model ----
(***************************************************************************)
(* Raft lease forwarding client (api/raftlease/client.go).                 *)
(*                                                                         *)
(* The model follows the Client (router) and its remote workers:           *)
(*   - Client.Request with the retry.Call loop it drives (3 attempts,      *)
(*     stop channel = ctx.Done(), forward-timeout channel from Clock.After)*)
(*   - Client.loop / gatherAddresses / ensureServers (the reconciler)      *)
(*   - remote.loop / connect / SetAddress / Kill / Request                 *)
(*                                                                         *)
(* Time is not measured: a timer is a one-shot channel that is armed, then *)
(* holds a value once it has fired, and is empty again once the value has  *)
(* been received.                                                          *)
(***************************************************************************)
EXTENDS Integers, Sequences, FiniteSets, TLC

\* ------------------------------------------------------------------------
\* Bounds of the model
\* ------------------------------------------------------------------------
MaxRemotes == 2      \* remote instances NewRemote may create in one run
MaxSnapshots == 1    \* apiserver.Details events delivered to Client.loop
MaxCalls == 3        \* calls made on a Remote from outside the Client

\* ------------------------------------------------------------------------
\* Program constants
\* ------------------------------------------------------------------------
Attempts == 3        \* retry.CallArgs.Attempts in Client.Request

\* ------------------------------------------------------------------------
\* Value sets
\* ------------------------------------------------------------------------
Reqs == {"q1", "q2"}                 \* concurrent callers of Client.Request
Remotes == 1..MaxRemotes             \* remote instances (pointers)
NoRemote == 0                        \* the nil Remote
BootKeys == {"0"}                    \* fmt.Sprintf("%d", k) keys of initServers
SnapIds == {"0", "A"}                \* controller ids published on the hub
Ids == BootKeys \cup SnapIds         \* keys of Client.servers
HintIds == {"A", "Z"}                \* ServerID carried by a NotLeaderError
Addrs == {"a1", "b1"}                \* controller addresses
BootAddrs == {<<"a1">>}              \* APIInfo.Addrs of a Client that exists
BootInputs == BootAddrs \cup {<<>>}   \* APIInfo.Addrs given to NewClient

\* apiserver.APIServer values of a Details event: InternalAddress and the
\* pre-sorted Addresses list.
ServerInfos ==
    { [InternalAddress |-> "a1", Addresses |-> <<"b1">>],
      [InternalAddress |-> "",   Addresses |-> <<"b1", "a1">>],
      [InternalAddress |-> "",   Addresses |-> <<>>] }

NoServer == [InternalAddress |-> "-", Addresses |-> <<>>]   \* id not in Details.Servers

\* apiserver.Details.Servers: a map from some of SnapIds to APIServer.
DetailsSet == [SnapIds -> ServerInfos \cup {NoServer}]

\* Replies of RaftLeaseApplier.ApplyLease.
NotLeaderReplies ==
    { [kind |-> "NotLeader", id |-> i, addr |-> a] : i \in HintIds, a \in {"", "a1"} }
NoReply == [kind |-> "none", id |-> "", addr |-> ""]

\* No call has been made on a Remote from outside the Client.
NoProbe ==
    [n |-> 0, op |-> "none", r |-> NoRemote, arg |-> "", api |-> "", out |-> ""]
Replies ==
    { [kind |-> k, id |-> "", addr |-> ""] : k \in {"ok", "Dropped", "Error"} }
        \cup NotLeaderReplies

VARIABLES
    \* Client
    servers,          \* Client.servers: key -> remote instance (NoRemote: no entry)
    lastKnownRemote,  \* Client.lastKnownRemote
    mutex,            \* Client.mutex: "free" or "loop" (held by ensureServers)
    \* Client.loop / ensureServers
    loopPc,           \* "recv" (select in loop) or "evict" (second loop of ensureServers)
    witnessed,        \* the witnessed set of the running ensureServers
    evicting,         \* key whose remote has been killed and is being awaited
    snapshots,        \* Details events received so far
    nextRemote,       \* next instance NewRemote will create
    awaited,          \* the remote whose Wait ensureServers is blocked in
    received,         \* the last Details received: id -> preferred address
    logged,           \* "error waiting for remote server death" was logged
    \* NewClient, Close and the catacomb
    newPc,            \* position of NewClient: "seed", "add", "stop", "done", "failed"
    stopping,         \* the remote a failed catacomb.Add of NewClient is stopping
    catacomb,         \* "alive", or what the catacomb was killed with
    attached,         \* remotes catacomb.Add has taken
    reaped,           \* remotes the catacomb has killed
    closePc,          \* position of Close: "none", "waiting", "returned"
    sub,              \* the hub subscription: "none", "subscribed", "released"
    hubReq,           \* the details request: "none", "published", "answered", "missed"
    \* remote instances
    rAddr,            \* config.APIInfo.Addrs[0]
    rApi,             \* remote.api (and remote.client): "nil", "open", "closed"
    rLoop,            \* position of remote.loop
    rDying,           \* tomb is dying
    rStop,            \* remote.stopConnecting: "nil", "open", "closed"
    rErr,             \* Wait of the terminated remote returns an error
    rLive,            \* connections the remote has opened and not closed
    rTarget,          \* address the dial of connect targets, then the api
    probe,            \* the last call made on a Remote from outside the Client
    \* one Client.Request call per caller
    pc,               \* position of the call
    remote,           \* the closure variable remote
    attempt,          \* retry.Call's i
    timer,            \* the timeout channel: "unarmed", "armed", "fired", "drained"
    ctxDone,          \* ctx.Done() is closed
    notLeader,        \* the NotLeaderError being handled
    addr,             \* remote.Address() as passed to selectRemoteFromError
    calls,            \* Remote.Request invocations made by the call
    called,           \* the remote the last of them was made on
    result,           \* what Client.Request returned
    metrics,          \* labels the call passed to ClientMetrics.RecordOperation
    redirect,         \* servers[ServerID] at the time a NotLeader reply was handled
    lastWriter,       \* caller that last assigned lastKnownRemote
    apiAddrs          \* config.APIInfo.Addrs given to NewClient

clientVars == <<servers, lastKnownRemote, mutex, lastWriter, apiAddrs>>
lifeVars == <<newPc, stopping, catacomb, attached, reaped, closePc, sub, hubReq>>
loopVars == <<loopPc, witnessed, evicting, snapshots, nextRemote, awaited,
              received, logged, lifeVars>>
remoteVars == <<rAddr, rApi, rLoop, rDying, rStop, rErr, rLive, rTarget, probe>>
reqVars == <<pc, remote, attempt, timer, ctxDone, notLeader, addr, calls,
             called, result, metrics, redirect>>
vars == <<clientVars, loopVars, remoteVars, reqVars>>

\* ------------------------------------------------------------------------
\* Helpers
\* ------------------------------------------------------------------------
Keys(m) == { k \in Ids : m[k] # NoRemote }
Values(m) == { m[k] : k \in Keys(m) }

\* ------------------------------------------------------------------------
\* Init: the Client as NewClient returns it. initServers has created one
\* remote per bootstrap address, keyed by index; every remote has started
\* its loop and is in connect().
\* ------------------------------------------------------------------------
initServers(bootAddrs) ==
    [k \in Ids |-> IF k = "0" /\ Len(bootAddrs) > 0 THEN 1 ELSE NoRemote]

Init ==
    \E bootAddrs \in BootAddrs :
        /\ servers = initServers(bootAddrs)
        /\ lastKnownRemote = NoRemote
        /\ mutex = "free"
        /\ lastWriter = "none"
        /\ apiAddrs = bootAddrs
        /\ loopPc = "recv"
        /\ witnessed = {}
        /\ evicting = "none"
        /\ snapshots = 0
        /\ nextRemote = Len(bootAddrs) + 1
        /\ awaited = NoRemote
        /\ received = [id \in Ids |-> ""]
        /\ logged = FALSE
        /\ newPc = "done"
        /\ stopping = NoRemote
        /\ catacomb = "alive"
        /\ attached = { r \in Remotes : r <= Len(bootAddrs) }
        /\ reaped = {}
        /\ closePc = "none"
        /\ sub = "subscribed"
        /\ hubReq = "answered"
        /\ rErr = [r \in Remotes |-> FALSE]
        /\ rLive = [r \in Remotes |-> 0]
        /\ rTarget = [r \in Remotes |-> IF r <= Len(bootAddrs) THEN bootAddrs[r] ELSE ""]
        /\ probe = NoProbe
        /\ rAddr = [r \in Remotes |-> IF r <= Len(bootAddrs) THEN bootAddrs[r] ELSE ""]
        /\ rApi = [r \in Remotes |-> "nil"]
        /\ rLoop = [r \in Remotes |-> IF r <= Len(bootAddrs) THEN "connect" ELSE "none"]
        /\ rDying = [r \in Remotes |-> FALSE]
        /\ rStop = [r \in Remotes |-> IF r <= Len(bootAddrs) THEN "open" ELSE "nil"]
        /\ pc = [q \in Reqs |-> "idle"]
        /\ remote = [q \in Reqs |-> NoRemote]
        /\ attempt = [q \in Reqs |-> 0]
        /\ timer = [q \in Reqs |-> "unarmed"]
        /\ ctxDone = [q \in Reqs |-> FALSE]
        /\ notLeader = [q \in Reqs |-> NoReply]
        /\ addr = [q \in Reqs |-> ""]
        /\ calls = [q \in Reqs |-> 0]
        /\ called = [q \in Reqs |-> NoRemote]
        /\ result = [q \in Reqs |-> "none"]
        /\ metrics = [q \in Reqs |-> <<>>]
        /\ redirect = [q \in Reqs |-> NoRemote]

\* ------------------------------------------------------------------------
\* remote: the per-controller connection worker
\* ------------------------------------------------------------------------

\* remote.Address
Address(r) == rAddr[r]

\* remote.Request ignoring ctx.
remoteRequestNoCtx(r, done) == IF rApi[r] = "nil" THEN "Dropped" ELSE "apply"

\* remote.Request up to the ApplyLease call: "Dropped" when no client is
\* attached, the ctx error when ctx is already cancelled, "apply" when the
\* command goes to the wire. (Commands of the model always marshal.)
remoteRequest(r, done) ==
    IF rApi[r] = "nil" THEN "Dropped"
    ELSE IF done THEN "Canceled"
    ELSE "apply"

\* A remote.SetAddress that never closes stopConnecting.
SetAddressStopNever(r, a) == rStop[r]

\* A remote.SetAddress that does not compare the addresses.
SetAddressStopAlways(r, a) ==
    IF rApi[r] = "nil" /\ rStop[r] = "open" THEN "closed" ELSE rStop[r]

\* remote.SetAddress, as the stopConnecting channel it leaves behind: the
\* channel of a running connect is closed when the address changes and no
\* api is attached.
SetAddressStop(r, a) ==
    IF Address(r) = a THEN rStop[r]
    ELSE IF rApi[r] = "nil" /\ rStop[r] = "open" THEN "closed"
    ELSE rStop[r]

\* remote.Kill, as the api it leaves behind: an attached api is closed.
KillApi(r) == IF rApi[r] \in {"open", "broken"} THEN "closed" ELSE rApi[r]

\* remote.Kill, as the number of open connections it leaves behind.
KillLive(r) == IF rApi[r] = "open" THEN rLive[r] - 1 ELSE rLive[r]

\* A loop that dials again while it waits with a connection attached.
connectingAgain(r) == rLoop[r] \in {"connect", "select"}

\* remote.loop is in connect: it only gets there with no api attached.
connecting(r) == rLoop[r] = "connect"

\* remote.connect, the dial succeeded: api and client are attached,
\* stopConnecting is reset and loop goes to its select with no delay.
DialSucceeds(r) ==
    /\ connecting(r)
    /\ rApi' = [rApi EXCEPT ![r] = "open"]
    /\ rLive' = [rLive EXCEPT ![r] = rLive[r] + 1]
    /\ rStop' = [rStop EXCEPT ![r] = "nil"]
    /\ rLoop' = [rLoop EXCEPT ![r] = "select"]
    /\ UNCHANGED <<rAddr, rTarget, rDying, rErr, probe, clientVars, loopVars, reqVars>>

\* remote.connect, the retry was stopped through stopConnecting: connect
\* returns false and loop waits on its 5 second delay.
ConnectStopped(r) ==
    /\ rLoop[r] = "connect"
    /\ rStop[r] = "closed"
    /\ rStop' = [rStop EXCEPT ![r] = "nil"]
    /\ rLoop' = [rLoop EXCEPT ![r] = "backoff"]
    /\ UNCHANGED <<rAddr, rTarget, rApi, rDying, rErr, rLive, probe, clientVars, loopVars, reqVars>>

\* remote.connect: the address api.Open dials, the one of r.config.APIInfo
\* when connect starts (SetAddress closes stopConnecting when it changes
\* the address of a running connect, and no dial starts after that).
dialAddress(r) == Address(r)

\* remote.loop, the delay fired with no api attached: connect again.
BackoffElapsed(r) ==
    /\ rLoop[r] = "backoff"
    /\ rStop' = [rStop EXCEPT ![r] = "open"]
    /\ rLoop' = [rLoop EXCEPT ![r] = "connect"]
    /\ rTarget' = [rTarget EXCEPT ![r] = dialAddress(r)]
    /\ UNCHANGED <<rAddr, rApi, rDying, rErr, rLive, probe, clientVars, loopVars, reqVars>>

\* remote.loop, the select sees tomb.Dying: the worker terminates.
LoopDying(r) ==
    /\ rLoop[r] \in {"select", "backoff"}
    /\ rDying[r]
    /\ rLoop' = [rLoop EXCEPT ![r] = "dead"]
    /\ UNCHANGED <<rAddr, rTarget, rApi, rDying, rStop, rErr, rLive, probe, clientVars, loopVars, reqVars>>

\* The same step of a Remote whose Wait then returns an error. (Remote is an
\* interface and Config.NewRemote makes the instances; the Wait of the remote
\* of this file returns nil.)
LoopDyingErr(r) ==
    /\ rLoop[r] \in {"select", "backoff"}
    /\ rDying[r]
    /\ rLoop' = [rLoop EXCEPT ![r] = "dead"]
    /\ rErr' = [rErr EXCEPT ![r] = TRUE]
    /\ UNCHANGED <<rAddr, rTarget, rApi, rDying, rStop, rLive, probe, clientVars, loopVars,
                   reqVars>>

\* The connection of the attached api fails or is closed by the other side:
\* r.api and r.client stay attached, and loop, which waits in its select
\* with a nil delay, does not see it.
ConnectionLost(r) ==
    /\ rApi[r] = "open"
    /\ rApi' = [rApi EXCEPT ![r] = "broken"]
    /\ rLive' = [rLive EXCEPT ![r] = rLive[r] - 1]
    /\ UNCHANGED <<rAddr, rTarget, rLoop, rDying, rStop, rErr, probe, clientVars,
                   loopVars, reqVars>>

\* A remote.SetAddress that closes the attached api.
SetAddressApiClosing(r, a) ==
    IF Address(r) # a /\ rApi[r] = "open" THEN "closed" ELSE rApi[r]

\* remote.SetAddress, as the api it leaves behind: r.api is not touched.
SetAddressApi(r, a) == rApi[r]

\* The record of the n-th call made on remote r from outside the Client:
\* the method, its argument, r.api when it was called and what it returned.
Probed(op, r, arg, out) ==
    [n |-> probe.n + 1, op |-> op, r |-> r, arg |-> arg, api |-> rApi[r],
     out |-> out]

\* remote.SetAddress(a), called on a running remote.
SetAddress(r, a) ==
    /\ rLoop[r] # "none"
    /\ probe.n < MaxCalls
    /\ rAddr' = [rAddr EXCEPT ![r] = a]
    /\ rStop' = [rStop EXCEPT ![r] = SetAddressStop(r, a)]
    /\ rApi' = [rApi EXCEPT ![r] = SetAddressApi(r, a)]
    /\ probe' = Probed("SetAddress", r, a, "")
    /\ UNCHANGED <<rLoop, rDying, rErr, rLive, rTarget, clientVars, loopVars, reqVars>>

\* remote.Kill, called on a running remote.
Kill(r) ==
    /\ rLoop[r] # "none"
    /\ probe.n < MaxCalls
    /\ rApi' = [rApi EXCEPT ![r] = KillApi(r)]
    /\ rLive' = [rLive EXCEPT ![r] = KillLive(r)]
    /\ rDying' = [rDying EXCEPT ![r] = TRUE]
    /\ probe' = Probed("Kill", r, "", "")
    /\ UNCHANGED <<rAddr, rTarget, rLoop, rStop, rErr, clientVars, loopVars, reqVars>>

\* remote.Request, called on a running remote with a ctx that is cancelled
\* (done) or not: what it does is recorded.
Request(r, done) ==
    /\ rLoop[r] # "none"
    /\ probe.n < MaxCalls
    /\ probe' = Probed("Request", r, IF done THEN "done" ELSE "", remoteRequest(r, done))
    /\ UNCHANGED <<rAddr, rTarget, rApi, rLoop, rDying, rStop, rErr, rLive, clientVars,
                   loopVars, reqVars>>

\* ------------------------------------------------------------------------
\* Client.loop, gatherAddresses, ensureServers
\* ------------------------------------------------------------------------
IdOrder == <<"0", "A">>
IdIndex(id) == CHOOSE n \in 1..Len(IdOrder) : IdOrder[n] = id

\* A gatherAddresses that only takes the internal address.
preferredAddressInternalOnly(server) == server.InternalAddress

\* The address gatherAddresses keeps for one server ("" when unusable).
preferredAddress(server) ==
    IF server.InternalAddress # "" THEN server.InternalAddress
    ELSE IF Len(server.Addresses) > 0 THEN server.Addresses[1]
    ELSE ""

\* gatherAddresses: id -> address, "" for an id that is not in the result.
gatherAddresses(details) ==
    [id \in Ids |->
        IF id \in SnapIds /\ details[id] # NoServer
        THEN preferredAddress(details[id]) ELSE ""]

AddressIds(addresses) == { id \in Ids : addresses[id] # "" }

\* The preferred address of every id of a Details event, "" for an id that
\* is not in the event or has no address: what loop receives.
Usable(details) ==
    [id \in Ids |->
        IF id \notin SnapIds \/ details[id] = NoServer THEN ""
        ELSE IF details[id].InternalAddress # "" THEN details[id].InternalAddress
        ELSE IF details[id].Addresses # <<>> THEN Head(details[id].Addresses)
        ELSE ""]

\* The catacomb is dying (or dead).
Dying == catacomb # "alive"

\* A loop that applies every Details event.
skipDetailsNever(ids) == FALSE

\* Client.loop: the event is skipped when gatherAddresses kept no address.
skipDetails(ids) == ids = {}

\* An ensureServers that finds none of its servers.
foundNever(id) == FALSE

\* ensureServers, first loop: c.servers has a remote for the id.
found(id) == id \in Keys(servers)

\* The instance NewRemote creates for a new id in ensureServers' first loop.
NewRemoteFor(id, newIds) ==
    nextRemote + Cardinality({ j \in newIds : IdIndex(j) < IdIndex(id) })

\* Client.loop receives a Details event. With no usable address the event is
\* skipped. Otherwise ensureServers takes the mutex and runs its first loop:
\* SetAddress on the remotes it has, NewRemote (and catacomb.Add) for the new
\* ids. With nothing to kill it returns at once, else it goes on to its
\* second loop with the mutex held.
LoopReceive(details) ==
    LET addresses == gatherAddresses(details)
        ids == AddressIds(addresses)
        kept == { id \in ids : found(id) }
        newIds == ids \ kept
        created == { NewRemoteFor(id, newIds) : id \in newIds }
        stale == Keys(servers) \ ids
    IN
    /\ loopPc = "recv"
    /\ sub = "subscribed"
    /\ mutex = "free"
    /\ snapshots < MaxSnapshots
    /\ snapshots' = snapshots + 1
    /\ received' = Usable(details)
    /\ IF skipDetails(ids)
       THEN UNCHANGED <<servers, mutex, apiAddrs, loopPc, witnessed, nextRemote,
                        attached, remoteVars>>
       ELSE /\ ~Dying \/ newIds = {}
            /\ nextRemote + Cardinality(newIds) <= MaxRemotes + 1
            /\ servers' = [k \in Ids |->
                   IF k \in newIds THEN NewRemoteFor(k, newIds) ELSE servers[k]]
            /\ nextRemote' = nextRemote + Cardinality(newIds)
            /\ attached' = attached \cup created
            /\ rAddr' = [r \in Remotes |->
                   IF \E k \in ids : r = servers'[k]
                   THEN addresses[CHOOSE k \in ids : r = servers'[k]]
                   ELSE rAddr[r]]
            /\ rStop' = [r \in Remotes |->
                   IF r \in created THEN "open"
                   ELSE IF \E k \in kept : r = servers[k]
                   THEN SetAddressStop(r, addresses[CHOOSE k \in kept : r = servers[k]])
                   ELSE rStop[r]]
            /\ rLoop' = [r \in Remotes |-> IF r \in created THEN "connect" ELSE rLoop[r]]
            /\ rTarget' = [r \in Remotes |->
                   IF r \in created THEN rAddr'[r] ELSE rTarget[r]]
            /\ UNCHANGED <<rApi, rDying, rErr, rLive, probe>>
            /\ witnessed' = ids
            /\ IF stale = {}
               THEN UNCHANGED <<mutex, loopPc>>
               ELSE mutex' = "loop" /\ loopPc' = "evict"
    /\ UNCHANGED <<lastKnownRemote, lastWriter, apiAddrs, evicting, awaited, logged,
                   newPc, stopping, sub, hubReq, catacomb, reaped, closePc, reqVars>>

\* Client.loop receives a Details event with a new id while the catacomb is
\* dying. The first loop of ensureServers has called SetAddress for some of
\* the ids it has (range over a map takes them in any order) when it comes
\* to the new id n: the remote is created and stored, catacomb.Add refuses
\* it and stops it (Kill, then Wait) with the mutex held.
LoopReceiveDying(details, n, before) ==
    LET addresses == gatherAddresses(details)
        ids == AddressIds(addresses)
        kept == { id \in ids : found(id) }
    IN
    /\ loopPc = "recv"
    /\ sub = "subscribed"
    /\ mutex = "free"
    /\ snapshots < MaxSnapshots
    /\ Dying
    /\ n \in ids \ kept
    /\ before \subseteq kept
    /\ nextRemote <= MaxRemotes
    /\ snapshots' = snapshots + 1
    /\ received' = Usable(details)
    /\ servers' = [servers EXCEPT ![n] = nextRemote]
    /\ nextRemote' = nextRemote + 1
    /\ rAddr' = [r \in Remotes |->
           IF r = nextRemote THEN addresses[n]
           ELSE IF \E k \in before : r = servers[k]
           THEN addresses[CHOOSE k \in before : r = servers[k]]
           ELSE rAddr[r]]
    /\ rStop' = [r \in Remotes |->
           IF r = nextRemote THEN "open"
           ELSE IF \E k \in before : r = servers[k]
           THEN SetAddressStop(r, addresses[CHOOSE k \in before : r = servers[k]])
           ELSE rStop[r]]
    /\ rLoop' = [rLoop EXCEPT ![nextRemote] = "connect"]
    /\ rTarget' = [rTarget EXCEPT ![nextRemote] = addresses[n]]
    /\ rDying' = [rDying EXCEPT ![nextRemote] = TRUE]
    /\ reaped' = reaped \cup {nextRemote}
    /\ witnessed' = before \cup {n}
    /\ awaited' = nextRemote
    /\ mutex' = "loop"
    /\ loopPc' = "addstop"
    /\ UNCHANGED <<lastKnownRemote, lastWriter, apiAddrs, evicting, logged, rApi, rErr, rLive, probe,
                   newPc, stopping, sub, hubReq, catacomb, attached, closePc, reqVars>>

\* A loop that goes on after ensureServers returned an error.
afterAddErrorIgnored == "recv"

\* Client.loop, ensureServers returned the error of catacomb.Add: loop
\* returns it.
afterAddError == "failed"

\* The stopped remote has terminated: catacomb.Add returns its error,
\* ensureServers releases the mutex and loop returns the error (the
\* deferred unsubscribe runs).
AddStopReturns ==
    /\ loopPc = "addstop"
    /\ rLoop[awaited] = "dead"
    /\ awaited' = NoRemote
    /\ mutex' = "free"
    /\ loopPc' = afterAddError
    /\ sub' = "released"
    /\ UNCHANGED <<servers, lastKnownRemote, lastWriter, apiAddrs, witnessed, evicting,
                   snapshots, nextRemote, received, logged, newPc, stopping,
                   catacomb, attached, reaped, closePc, hubReq, remoteVars,
                   reqVars>>

\* ensureServers, second loop: Kill the remote of an id that was not
\* witnessed, then block in its Wait.
EvictKill(id) ==
    /\ loopPc = "evict"
    /\ evicting = "none"
    /\ id \in Keys(servers) \ witnessed
    /\ rApi' = [rApi EXCEPT ![servers[id]] = KillApi(servers[id])]
    /\ rLive' = [rLive EXCEPT ![servers[id]] = KillLive(servers[id])]
    /\ rDying' = [rDying EXCEPT ![servers[id]] = TRUE]
    /\ evicting' = id
    /\ awaited' = servers[id]
    /\ UNCHANGED <<rAddr, rTarget, rLoop, rStop, rErr, probe, clientVars, loopPc, witnessed,
                   snapshots, nextRemote, received, logged, lifeVars, reqVars>>

\* ensureServers, second loop: Wait has returned, its error is logged and
\* the id is deleted. After the last one ensureServers returns and releases
\* the mutex.
EvictWait ==
    /\ loopPc = "evict"
    /\ evicting # "none"
    /\ rLoop[awaited] = "dead"
    /\ logged' = (logged \/ rErr[awaited])
    /\ evicting' = "none"
    /\ awaited' = NoRemote
    /\ servers' = [servers EXCEPT ![evicting] = NoRemote]
    /\ IF Keys(servers') \subseteq witnessed
       THEN mutex' = "free" /\ loopPc' = "recv"
       ELSE UNCHANGED <<mutex, loopPc>>
    /\ UNCHANGED <<lastKnownRemote, lastWriter, apiAddrs, witnessed, snapshots,
                   nextRemote, received, lifeVars, remoteVars, reqVars>>

\* Client.loop, the select sees catacomb.Dying: loop returns ErrDying and the
\* deferred unsubscribe runs.
LoopExit ==
    /\ loopPc = "recv"
    /\ Dying
    /\ loopPc' = "done"
    /\ sub' = "released"
    /\ UNCHANGED <<clientVars, witnessed, evicting, snapshots, nextRemote,
                   awaited, received, logged, newPc, stopping, catacomb,
                   attached, reaped, closePc, hubReq, remoteVars, reqVars>>

\* apiserverDetailsChanged called with an error: the catacomb is killed with
\* it (the tomb keeps the first error it is killed with).
CallbackError ==
    /\ sub = "subscribed"
    /\ catacomb \in {"alive", "nil"}
    /\ catacomb' = "callback"
    /\ UNCHANGED <<clientVars, loopPc, witnessed, evicting, snapshots,
                   nextRemote, awaited, received, logged, newPc, stopping, sub, hubReq,
                   attached, reaped, closePc, remoteVars, reqVars>>

\* ------------------------------------------------------------------------
\* The catacomb (github.com/juju/worker catacomb, used through Invoke, Add,
\* Kill, Wait and Dying)
\* ------------------------------------------------------------------------

\* The goroutine catacomb.Add starts for a worker, catacomb dying: the worker
\* is killed.
CatacombKill(r) ==
    /\ Dying
    /\ r \in attached \ reaped
    /\ rLoop[r] # "dead"
    /\ rApi' = [rApi EXCEPT ![r] = KillApi(r)]
    /\ rLive' = [rLive EXCEPT ![r] = KillLive(r)]
    /\ rDying' = [rDying EXCEPT ![r] = TRUE]
    /\ reaped' = reaped \cup {r}
    /\ UNCHANGED <<rAddr, rTarget, rLoop, rStop, rErr, probe, clientVars, loopPc, witnessed,
                   evicting, snapshots, nextRemote, awaited, received, logged,
                   newPc, stopping, sub, hubReq, catacomb, attached, closePc, reqVars>>

\* The goroutine catacomb.Add starts for a worker, Wait returned an error:
\* the catacomb is killed with it.
CatacombWatch(r) ==
    /\ r \in attached
    /\ rLoop[r] = "dead"
    /\ rErr[r]
    /\ catacomb \in {"alive", "nil"}
    /\ catacomb' = "wait"
    /\ UNCHANGED <<clientVars, loopPc, witnessed, evicting, snapshots,
                   nextRemote, awaited, received, logged, newPc, stopping, sub, hubReq,
                   attached, reaped, closePc, remoteVars, reqVars>>

\* ------------------------------------------------------------------------
\* NewClient and Close
\* ------------------------------------------------------------------------

\* The steps of NewClient with the details request published first.
NewClientStepsPublishFirst == <<"publish", "subscribe", "invoke", "seed">>

\* The steps of NewClient up to initServers, in the order of the code:
\* Hub.Subscribe, Hub.Publish of the details request, catacomb.Invoke.
NewClientSteps == <<"subscribe", "publish", "invoke", "seed">>

\* The step of NewClient that follows step.
stepAfter(step) ==
    NewClientSteps[(CHOOSE n \in 1..Len(NewClientSteps) : NewClientSteps[n] = step) + 1]

\* NewClient: Hub.Subscribe registers apiserverDetailsChanged.
Subscribe ==
    /\ newPc = "subscribe"
    /\ sub' = "subscribed"
    /\ newPc' = stepAfter("subscribe")
    /\ UNCHANGED <<clientVars, loopPc, witnessed, evicting, snapshots,
                   nextRemote, awaited, received, logged, stopping, catacomb,
                   attached, reaped, closePc, hubReq, remoteVars, reqVars>>

\* NewClient: Hub.Subscribe returns an error, NewClient returns it.
SubscribeFails ==
    /\ newPc = "subscribe"
    /\ newPc' = "huberr"
    /\ UNCHANGED <<clientVars, loopPc, witnessed, evicting, snapshots,
                   nextRemote, awaited, received, logged, stopping, catacomb,
                   attached, reaped, closePc, sub, hubReq, remoteVars, reqVars>>

\* NewClient: Hub.Publish sends the details request.
PublishRequest ==
    /\ newPc = "publish"
    /\ hubReq' = "published"
    /\ newPc' = stepAfter("publish")
    /\ UNCHANGED <<clientVars, loopPc, witnessed, evicting, snapshots,
                   nextRemote, awaited, received, logged, stopping, catacomb,
                   attached, reaped, closePc, sub, remoteVars, reqVars>>

\* NewClient: Hub.Publish returns an error, NewClient unsubscribes and
\* returns it.
PublishFails ==
    /\ newPc = "publish"
    /\ newPc' = "huberr"
    /\ sub' = IF sub = "subscribed" THEN "released" ELSE sub
    /\ UNCHANGED <<clientVars, loopPc, witnessed, evicting, snapshots,
                   nextRemote, awaited, received, logged, stopping, catacomb,
                   attached, reaped, closePc, hubReq, remoteVars, reqVars>>

\* The hub: the details published in reply to the request go to the
\* handlers subscribed at that time.
HubAnswers ==
    /\ hubReq = "published"
    /\ hubReq' = CASE sub = "subscribed" -> "answered"
                   [] sub = "none" -> "missed"
                   [] OTHER -> "unheard"
    /\ UNCHANGED <<clientVars, loopPc, witnessed, evicting, snapshots,
                   nextRemote, awaited, received, logged, newPc, stopping,
                   catacomb, attached, reaped, closePc, sub, remoteVars,
                   reqVars>>

\* NewClient: catacomb.Invoke starts the goroutine that runs loop.
Invoke ==
    /\ newPc = "invoke"
    /\ loopPc' = "recv"
    /\ newPc' = stepAfter("invoke")
    /\ UNCHANGED <<clientVars, witnessed, evicting, snapshots, nextRemote,
                   awaited, received, logged, stopping, catacomb, attached,
                   reaped, closePc, sub, hubReq, remoteVars, reqVars>>

\* An initServers that takes any address list.
noAddressesUnchecked(bootAddrs) == FALSE

\* initServers: the address list is empty.
noAddresses(bootAddrs) == Len(bootAddrs) = 0

\* NewClient: initServers fails with NotFound "api addresses", NewClient
\* unsubscribes and returns the error.
SeedFails ==
    /\ newPc = "seed"
    /\ noAddresses(apiAddrs)
    /\ newPc' = "notfound"
    /\ sub' = "released"
    /\ UNCHANGED <<clientVars, loopPc, witnessed, evicting, snapshots,
                   nextRemote, awaited, received, logged, stopping, catacomb,
                   attached, reaped, closePc, hubReq, remoteVars, reqVars>>

\* NewClient after catacomb.Invoke: initServers stores one new remote per
\* bootstrap address under its index, without the mutex.
Seed(bootAddrs) ==
    /\ newPc = "seed"
    /\ ~noAddresses(bootAddrs)
    /\ nextRemote <= MaxRemotes
    /\ IF Len(bootAddrs) = 0
       THEN UNCHANGED <<servers, nextRemote, rAddr, rTarget, rLoop, rStop>>
       ELSE /\ servers' = [servers EXCEPT !["0"] = nextRemote]
            /\ nextRemote' = nextRemote + 1
            /\ rAddr' = [rAddr EXCEPT ![nextRemote] = bootAddrs[1]]
            /\ rTarget' = [rTarget EXCEPT ![nextRemote] = bootAddrs[1]]
            /\ rLoop' = [rLoop EXCEPT ![nextRemote] = "connect"]
            /\ rStop' = [rStop EXCEPT ![nextRemote] = "open"]
    /\ newPc' = "add"
    /\ UNCHANGED <<lastKnownRemote, mutex, lastWriter, apiAddrs, loopPc, witnessed,
                   evicting, snapshots, awaited, received, logged, stopping, sub, hubReq,
                   catacomb, attached, reaped, closePc, rApi, rDying, rErr, rLive, probe,
                   reqVars>>

\* NewClient, the loop over client.servers: catacomb.Add takes the remote;
\* a dying catacomb refuses it and stops it (Kill, then Wait).
AddBoot(id) ==
    /\ newPc = "add"
    /\ id \in Keys(servers)
    /\ servers[id] \notin attached \cup reaped
    /\ IF Dying
       THEN /\ rApi' = [rApi EXCEPT ![servers[id]] = KillApi(servers[id])]
            /\ rDying' = [rDying EXCEPT ![servers[id]] = TRUE]
            /\ reaped' = reaped \cup {servers[id]}
            /\ stopping' = servers[id]
            /\ newPc' = "stop"
            /\ rLive' = [rLive EXCEPT ![servers[id]] = KillLive(servers[id])]
            /\ UNCHANGED attached
       ELSE /\ attached' = attached \cup {servers[id]}
            /\ UNCHANGED <<rApi, rDying, rLive, reaped, stopping, newPc>>
    /\ UNCHANGED <<rAddr, rTarget, rLoop, rStop, rErr, probe, clientVars, loopPc, witnessed,
                   evicting, snapshots, nextRemote, awaited, received, logged,
                   catacomb, closePc, sub, hubReq, reqVars>>

\* NewClient: the stopped remote has terminated, NewClient unsubscribes and
\* returns the error.
NewClientFails ==
    /\ newPc = "stop"
    /\ rLoop[stopping] = "dead"
    /\ newPc' = "failed"
    /\ stopping' = NoRemote
    /\ sub' = "released"
    /\ UNCHANGED <<clientVars, loopPc, witnessed, evicting, snapshots,
                   nextRemote, awaited, received, logged, catacomb, attached,
                   reaped, closePc, hubReq, remoteVars, reqVars>>

\* A loop over client.servers that adds nothing.
allAddedUnchecked == TRUE

\* NewClient: the loop over client.servers has added every remote.
allAdded == Values(servers) \subseteq attached

\* NewClient: every remote of client.servers has been added, the Client is
\* returned.
NewClientReturns ==
    /\ newPc = "add"
    /\ allAdded
    /\ newPc' = "done"
    /\ UNCHANGED <<clientVars, loopPc, witnessed, evicting, snapshots,
                   nextRemote, awaited, received, logged, stopping, sub, hubReq, catacomb,
                   attached, reaped, closePc, remoteVars, reqVars>>

\* Client.Close: catacomb.Kill(nil), then it blocks in catacomb.Wait.
Close ==
    /\ newPc = "done"
    /\ closePc = "none"
    /\ closePc' = "waiting"
    /\ catacomb' = IF Dying THEN catacomb ELSE "nil"
    /\ UNCHANGED <<clientVars, loopPc, witnessed, evicting, snapshots,
                   nextRemote, awaited, received, logged, newPc, stopping, sub, hubReq,
                   attached, reaped, remoteVars, reqVars>>

\* Client.Close: catacomb.Wait returns once loop has returned and every
\* attached remote has terminated.
CloseReturns ==
    /\ closePc = "waiting"
    /\ loopPc \in {"done", "failed"}
    /\ \A r \in attached : rLoop[r] = "dead"
    /\ closePc' = "returned"
    /\ UNCHANGED <<clientVars, loopPc, witnessed, evicting, snapshots,
                   nextRemote, awaited, received, logged, newPc, stopping, sub, hubReq,
                   catacomb, attached, reaped, remoteVars, reqVars>>

\* ------------------------------------------------------------------------
\* Client.Request
\* ------------------------------------------------------------------------

\* Client.selectRemote: the remotes it may return (range over a map yields
\* any entry first), NoRemote with the NotFound error.
selectRemote ==
    IF lastKnownRemote # NoRemote THEN {lastKnownRemote}
    ELSE IF Keys(servers) # {} THEN Values(servers)
    ELSE {NoRemote}

\* selectRemoteFromError without the lookup of the ServerID.
selectRemoteFromErrorNoLookup(a, id) ==
    LET sorted == { r \in Values(servers) : Address(r) # a }
    IN IF sorted # {} THEN sorted ELSE {NoRemote}

\* selectRemoteFromError without the address check of the fallback.
selectRemoteFromErrorNoFilter(a, id) ==
    IF id \in Keys(servers) THEN {servers[id]}
    ELSE IF Values(servers) # {} THEN Values(servers) ELSE {NoRemote}

\* Client.selectRemoteFromError: the remotes it may return for the failed
\* remote's address a and the ServerID id of the error, NoRemote with the
\* NotFound error.
selectRemoteFromError(a, id) ==
    IF id \in Keys(servers) THEN {servers[id]}
    ELSE LET sorted == { r \in Values(servers) : Address(r) # a }
         IN IF sorted # {} THEN sorted ELSE {NoRemote}

\* notLeaderResult without the check of the server address.
notLeaderResultNoDrop(r, a) ==
    IF r # NoRemote THEN "NotLeader" ELSE "NotFound"

\* Func: the error it returns after selectRemoteFromError returned r for a
\* NotLeaderError with server address a.
notLeaderResult(r, a) ==
    IF r # NoRemote THEN "NotLeader"
    ELSE IF a = "" THEN "Dropped"
    ELSE "NotFound"

\* IsFatalError that takes no error as fatal.
IsFatalErrorNever(err) == FALSE

\* retry.Call: IsFatalError of the CallArgs.
IsFatalError(err) == err = "Dropped"

\* AttemptsUsed with the attempts counted from 0.
AttemptsUsedOffByOne(i) == i = Attempts + 1

\* retry.Call: the attempt that just failed was the last one.
AttemptsUsed(i) == i = Attempts

\* Client.Request returns res; the call has recorded the labels m and
\* records "error" on its way out.
Return(q, res, m) ==
    /\ pc' = [pc EXCEPT ![q] = "done"]
    /\ result' = [result EXCEPT ![q] = res]
    /\ metrics' = [metrics EXCEPT ![q] = Append(m, "error")]

\* retry.Call after Func returned the error err: a fatal error is returned
\* as it is, the last attempt ends the loop with the attempts-exceeded
\* error, otherwise retry.Call waits for the delay or the stop channel.
AfterFunc(q, err, m) ==
    IF IsFatalError(err) THEN Return(q, err, m)
    ELSE IF AttemptsUsed(attempt[q]) THEN Return(q, "AttemptsExceeded", m)
    ELSE /\ pc' = [pc EXCEPT ![q] = "delay"]
         /\ metrics' = [metrics EXCEPT ![q] = m]
         /\ UNCHANGED result

\* Client.Request up to retry.Call: the timeout channel is created and
\* selectRemote picks the first candidate. With no remote the NotFound error
\* is returned.
Start(q) ==
    /\ pc[q] = "idle"
    /\ mutex = "free"
    /\ timer' = [timer EXCEPT ![q] = "armed"]
    /\ \E r \in selectRemote :
        /\ remote' = [remote EXCEPT ![q] = r]
        /\ IF r = NoRemote
           THEN /\ pc' = [pc EXCEPT ![q] = "done"]
                /\ result' = [result EXCEPT ![q] = "NotFound"]
                /\ UNCHANGED attempt
           ELSE /\ pc' = [pc EXCEPT ![q] = "attempt"]
                /\ attempt' = [attempt EXCEPT ![q] = 1]
                /\ UNCHANGED result
    /\ UNCHANGED <<ctxDone, notLeader, addr, calls, called, metrics, redirect,
                   clientVars, loopVars, remoteVars>>

\* Func, case <-ctx.Done(): "delivery timeout" is recorded and ErrTimeout
\* goes back to retry.Call.
AttemptCtxDone(q) ==
    /\ pc[q] = "attempt"
    /\ ctxDone[q]
    /\ AfterFunc(q, "Timeout", Append(metrics[q], "delivery timeout"))
    /\ UNCHANGED <<remote, attempt, timer, ctxDone, notLeader, addr, calls, called,
                   redirect, clientVars, loopVars, remoteVars>>

\* Func, case <-timeout: the value is received from the timeout channel and
\* ErrTimeout goes back to retry.Call.
AttemptTimeout(q) ==
    /\ pc[q] = "attempt"
    /\ timer[q] = "fired"
    /\ timer' = [timer EXCEPT ![q] = "drained"]
    /\ AfterFunc(q, "Timeout", metrics[q])
    /\ UNCHANGED <<remote, attempt, ctxDone, notLeader, addr, calls, called,
                   redirect, clientVars, loopVars, remoteVars>>

\* Func, default case: remote.Request is invoked on the candidate (a nil
\* candidate makes the call panic). Without a client the command is dropped,
\* with ctx cancelled since Func's select (cancelled) the ctx error is
\* returned, otherwise ApplyLease is called.
AttemptCall(q, cancelled) ==
    /\ pc[q] = "attempt"
    /\ ~ctxDone[q]
    /\ timer[q] # "fired"
    /\ ctxDone' = [ctxDone EXCEPT ![q] = cancelled]
    /\ IF remote[q] = NoRemote
       THEN /\ pc' = [pc EXCEPT ![q] = "done"]
            /\ result' = [result EXCEPT ![q] = "panic"]
            /\ UNCHANGED <<calls, called, metrics>>
       ELSE /\ calls' = [calls EXCEPT ![q] = calls[q] + 1]
            /\ called' = [called EXCEPT ![q] = remote[q]]
            /\ LET out == remoteRequest(remote[q], cancelled) IN
               IF out = "apply"
               THEN /\ pc' = [pc EXCEPT ![q] = "inflight"]
                    /\ UNCHANGED <<result, metrics>>
               ELSE AfterFunc(q, out, metrics[q])
    /\ UNCHANGED <<remote, attempt, timer, notLeader, addr, redirect,
                   clientVars, loopVars, remoteVars>>

\* ApplyLease returns. nil leads to the update of lastKnownRemote; for a
\* NotLeaderError remote.Address() is evaluated for selectRemoteFromError;
\* any other error goes back to retry.Call.
Reply(q, rep) ==
    /\ pc[q] = "inflight"
    /\ redirect' = [redirect EXCEPT ![q] = NoRemote]
    /\ IF rep.kind = "ok"
       THEN /\ pc' = [pc EXCEPT ![q] = "setleader"]
            /\ UNCHANGED <<notLeader, addr, result, metrics>>
       ELSE IF rep.kind = "NotLeader"
       THEN /\ pc' = [pc EXCEPT ![q] = "select"]
            /\ notLeader' = [notLeader EXCEPT ![q] = rep]
            /\ addr' = [addr EXCEPT ![q] = Address(remote[q])]
            /\ UNCHANGED <<result, metrics>>
       ELSE /\ AfterFunc(q, rep.kind, metrics[q])
            /\ UNCHANGED <<notLeader, addr>>
    /\ UNCHANGED <<remote, attempt, timer, ctxDone, calls, called,
                   clientVars, loopVars, remoteVars>>

\* served without the assignment.
servedRemoteKept(q) == lastKnownRemote

\* Func, err == nil: the value assigned to lastKnownRemote.
servedRemote(q) == remote[q]

\* Func, err == nil: lastKnownRemote is set under the mutex.
SetLeader(q) ==
    /\ pc[q] = "setleader"
    /\ mutex = "free"
    /\ lastKnownRemote' = servedRemote(q)
    /\ lastWriter' = q
    /\ pc' = [pc EXCEPT ![q] = "success"]
    /\ UNCHANGED <<servers, mutex, apiAddrs, remote, attempt, timer, ctxDone, notLeader,
                   addr, calls, called, result, metrics, redirect, loopVars, remoteVars>>

\* Func records "success" and returns nil, retry.Call returns nil and
\* Client.Request returns after its closing record call.
ReturnOk(q) ==
    /\ pc[q] = "success"
    /\ Return(q, "ok", Append(metrics[q], "success"))
    /\ UNCHANGED <<remote, attempt, timer, ctxDone, notLeader, addr, calls, called,
                   redirect, clientVars, loopVars, remoteVars>>

\* thrownAway without the assignment.
thrownAwayKept == lastKnownRemote

\* selectRemoteFromError: the value it assigns to lastKnownRemote first.
thrownAway == NoRemote

\* Func, NotLeaderError: selectRemoteFromError clears lastKnownRemote and
\* picks the next candidate. With a candidate the annotated NotLeaderError
\* goes back to retry.Call; with none, an error with an empty server address
\* becomes ErrDropped and any other the NotFound error.
Redirect(q) ==
    /\ pc[q] = "select"
    /\ mutex = "free"
    /\ lastKnownRemote' = thrownAway
    /\ lastWriter' = q
    /\ redirect' = [redirect EXCEPT ![q] =
           IF notLeader[q].id \in Keys(servers) THEN servers[notLeader[q].id]
           ELSE NoRemote]
    /\ \E r \in selectRemoteFromError(addr[q], notLeader[q].id) :
        /\ remote' = [remote EXCEPT ![q] = r]
        /\ AfterFunc(q, notLeaderResult(r, notLeader[q].addr), metrics[q])
    /\ notLeader' = [notLeader EXCEPT ![q] = NoReply]
    /\ addr' = [addr EXCEPT ![q] = ""]
    /\ UNCHANGED <<servers, mutex, apiAddrs, attempt, timer, ctxDone, calls, called,
                   loopVars, remoteVars>>

\* retry.Call, the delay elapsed: the next attempt starts. The delay channel
\* is created by the select that waits on it, so it is not ready while the
\* stop channel is already closed.
DelayElapsed(q) ==
    /\ pc[q] = "delay"
    /\ ~ctxDone[q]
    /\ attempt' = [attempt EXCEPT ![q] = attempt[q] + 1]
    /\ pc' = [pc EXCEPT ![q] = "attempt"]
    /\ UNCHANGED <<remote, timer, ctxDone, notLeader, addr, calls, called, result,
                   metrics, redirect, clientVars, loopVars, remoteVars>>

\* retry.Call, the stop channel (ctx.Done()) is closed during the delay:
\* the retry-stopped error, which Client.Request turns into ErrTimeout.
RetryStopped(q) ==
    /\ pc[q] = "delay"
    /\ ctxDone[q]
    /\ Return(q, "Timeout", metrics[q])
    /\ UNCHANGED <<remote, attempt, timer, ctxDone, notLeader, addr, calls, called,
                   redirect, clientVars, loopVars, remoteVars>>

\* The clock reaches ForwardTimeout: the timeout channel gets its value. The
\* channel is read only at the start of an attempt, so a value that arrives
\* at any other position is seen as one that arrives when the next attempt
\* starts; the position inside ApplyLease is kept apart.
TimerFires(q) ==
    /\ timer[q] = "armed"
    /\ pc[q] \in {"attempt", "inflight"}
    /\ timer' = [timer EXCEPT ![q] = "fired"]
    /\ UNCHANGED <<pc, remote, attempt, ctxDone, notLeader, addr, calls, called,
                   result, metrics, redirect, clientVars, loopVars, remoteVars>>

\* The caller cancels ctx. ctx is read at the start of an attempt, in
\* remote.Request (the cancelled argument of AttemptCall) and during the
\* delay; a cancellation at any other position is seen as one at the next
\* of these. The position inside ApplyLease is kept apart.
CtxCancel(q) ==
    /\ ~ctxDone[q]
    /\ pc[q] \in {"attempt", "inflight", "delay"}
    /\ ctxDone' = [ctxDone EXCEPT ![q] = TRUE]
    /\ UNCHANGED <<pc, remote, attempt, timer, notLeader, addr, calls, called,
                   result, metrics, redirect, clientVars, loopVars, remoteVars>>

\* ------------------------------------------------------------------------
\* Specifications
\* ------------------------------------------------------------------------
Solo == {"q1"}       \* the caller of Spec

\* Replies the controllers give in SpecConc: nil, or a NotLeaderError with a
\* server address that names a known or an unknown ServerID.
RepliesConc ==
    { rep \in Replies : rep.kind = "ok"
                          \/ (rep.kind = "NotLeader" /\ rep.addr = "a1") }

\* The steps Client.Request takes by itself.
RequestStep(q) ==
    \/ Start(q)
    \/ AttemptCtxDone(q)
    \/ AttemptTimeout(q)
    \/ \E cancelled \in BOOLEAN : AttemptCall(q, cancelled)
    \/ SetLeader(q)
    \/ ReturnOk(q)
    \/ Redirect(q)
    \/ DelayElapsed(q)
    \/ RetryStopped(q)

\* The remote workers and the reconciler.
Workers ==
    \/ \E r \in Remotes : DialSucceeds(r)
    \/ \E r \in Remotes : ConnectStopped(r)
    \/ \E r \in Remotes : BackoffElapsed(r)
    \/ \E r \in Remotes : LoopDying(r)
    \/ \E d \in DetailsSet : LoopReceive(d)
    \/ \E id \in Ids : EvictKill(id)
    \/ EvictWait

\* One caller with a ctx that may be cancelled and a forward timeout that
\* may fire, under reconciliation.
Next ==
    \/ \E q \in Solo : RequestStep(q)
    \/ \E q \in Solo, rep \in Replies : Reply(q, rep)
    \/ \E q \in Solo : TimerFires(q)
    \/ \E q \in Solo : CtxCancel(q)
    \/ Workers

Spec == Init /\ [][Next]_vars

\* Spec with the scheduling the Go runtime gives the caller's goroutine: a
\* step of Client.Request that can be taken is taken. Nothing makes a
\* controller reply.
FairSpec == Spec /\ \A q \in Solo : WF_vars(RequestStep(q))

\* Details events whose servers, when present, have the one address "b1".
DetailsConc ==
    { d \in DetailsSet :
        \A id \in SnapIds : d[id] # NoServer => preferredAddress(d[id]) = "b1" }

\* The remote workers and the reconciler under the events of DetailsConc.
WorkersConc ==
    \/ \E r \in Remotes : DialSucceeds(r)
    \/ \E r \in Remotes : ConnectStopped(r)
    \/ \E r \in Remotes : BackoffElapsed(r)
    \/ \E r \in Remotes : LoopDying(r)
    \/ \E d \in DetailsConc : LoopReceive(d)
    \/ \E id \in Ids : EvictKill(id)
    \/ EvictWait

\* Two concurrent callers whose ctx is never cancelled and whose forward
\* timeout does not fire, under reconciliation.
NextConc ==
    \/ \E q \in Reqs : Start(q)
    \/ \E q \in Reqs : AttemptCall(q, FALSE)
    \/ \E q \in Reqs : SetLeader(q)
    \/ \E q \in Reqs : ReturnOk(q)
    \/ \E q \in Reqs : Redirect(q)
    \/ \E q \in Reqs : DelayElapsed(q)
    \/ \E q \in Reqs, rep \in RepliesConc : Reply(q, rep)
    \/ WorkersConc

SpecConc == Init /\ [][NextConc]_vars

\* The life of the Client without callers: reconciliation, a hub callback
\* that may fail, remotes whose Wait may return an error, Close.
NextLife ==
    \/ Workers
    \/ \E r \in Remotes : LoopDyingErr(r)
    \/ \E d \in DetailsSet, n \in Ids, before \in SUBSET Ids :
           LoopReceiveDying(d, n, before)
    \/ AddStopReturns
    \/ LoopExit
    \/ CallbackError
    \/ \E r \in Remotes : CatacombKill(r)
    \/ \E r \in Remotes : CatacombWatch(r)
    \/ Close
    \/ CloseReturns

SpecLife == Init /\ [][NextLife]_vars

\* SpecLife with the scheduling of the Go runtime: a goroutine that can take
\* a step takes it. Nothing makes a dial succeed.
FairLife ==
    /\ SpecLife
    /\ \A r \in Remotes :
           /\ WF_vars(LoopDying(r) \/ LoopDyingErr(r))
           /\ WF_vars(ConnectStopped(r))
           /\ WF_vars(BackoffElapsed(r))
           /\ WF_vars(CatacombKill(r))
    /\ WF_vars(\E id \in Ids : EvictKill(id))
    /\ WF_vars(EvictWait)
    /\ WF_vars(AddStopReturns)
    /\ WF_vars(LoopExit)
    /\ WF_vars(CloseReturns)

\* NewClient after catacomb.Invoke has started loop: client.servers is
\* empty and no remote exists.
InitBoot ==
    /\ servers = [k \in Ids |-> NoRemote]
    /\ lastKnownRemote = NoRemote
    /\ mutex = "free"
    /\ lastWriter = "none"
    /\ apiAddrs \in BootAddrs
    /\ loopPc = "recv"
    /\ witnessed = {}
    /\ evicting = "none"
    /\ snapshots = 0
    /\ nextRemote = 1
    /\ awaited = NoRemote
    /\ received = [id \in Ids |-> ""]
    /\ logged = FALSE
    /\ newPc = "seed"
    /\ stopping = NoRemote
    /\ catacomb = "alive"
    /\ attached = {}
    /\ reaped = {}
    /\ closePc = "none"
    /\ sub = "subscribed"
    /\ hubReq = "published"
    /\ rAddr = [r \in Remotes |-> ""]
    /\ rApi = [r \in Remotes |-> "nil"]
    /\ rLoop = [r \in Remotes |-> "none"]
    /\ rDying = [r \in Remotes |-> FALSE]
    /\ rStop = [r \in Remotes |-> "nil"]
    /\ rErr = [r \in Remotes |-> FALSE]
    /\ rLive = [r \in Remotes |-> 0]
    /\ rTarget = [r \in Remotes |-> ""]
    /\ probe = NoProbe
    /\ pc = [q \in Reqs |-> "idle"]
    /\ remote = [q \in Reqs |-> NoRemote]
    /\ attempt = [q \in Reqs |-> 0]
    /\ timer = [q \in Reqs |-> "unarmed"]
    /\ ctxDone = [q \in Reqs |-> FALSE]
    /\ notLeader = [q \in Reqs |-> NoReply]
    /\ addr = [q \in Reqs |-> ""]
    /\ calls = [q \in Reqs |-> 0]
    /\ called = [q \in Reqs |-> NoRemote]
    /\ result = [q \in Reqs |-> "none"]
    /\ metrics = [q \in Reqs |-> <<>>]
    /\ redirect = [q \in Reqs |-> NoRemote]

\* Construction and the reconciliation that goes with it, without callers:
\* the hub callback may fail, the remotes are those of this file and Close
\* is not called.
NextBoot ==
    \/ Seed(apiAddrs)
    \/ \E id \in Ids : AddBoot(id)
    \/ NewClientFails
    \/ NewClientReturns
    \/ Workers
    \/ \E d \in DetailsSet, n \in Ids, before \in SUBSET Ids :
           LoopReceiveDying(d, n, before)
    \/ AddStopReturns
    \/ LoopExit
    \/ CallbackError
    \/ \E r \in Remotes : CatacombKill(r)

SpecBoot == InitBoot /\ [][NextBoot]_vars

\* NewClient is called (the Config is valid): nothing exists yet.
InitNew ==
    /\ servers = [k \in Ids |-> NoRemote]
    /\ lastKnownRemote = NoRemote
    /\ mutex = "free"
    /\ lastWriter = "none"
    /\ apiAddrs \in BootInputs
    /\ loopPc = "idle"
    /\ witnessed = {}
    /\ evicting = "none"
    /\ snapshots = 0
    /\ nextRemote = 1
    /\ awaited = NoRemote
    /\ received = [id \in Ids |-> ""]
    /\ logged = FALSE
    /\ newPc = NewClientSteps[1]
    /\ stopping = NoRemote
    /\ catacomb = "alive"
    /\ attached = {}
    /\ reaped = {}
    /\ closePc = "none"
    /\ sub = "none"
    /\ hubReq = "none"
    /\ rAddr = [r \in Remotes |-> ""]
    /\ rApi = [r \in Remotes |-> "nil"]
    /\ rLoop = [r \in Remotes |-> "none"]
    /\ rDying = [r \in Remotes |-> FALSE]
    /\ rStop = [r \in Remotes |-> "nil"]
    /\ rErr = [r \in Remotes |-> FALSE]
    /\ rLive = [r \in Remotes |-> 0]
    /\ rTarget = [r \in Remotes |-> ""]
    /\ probe = NoProbe
    /\ pc = [q \in Reqs |-> "idle"]
    /\ remote = [q \in Reqs |-> NoRemote]
    /\ attempt = [q \in Reqs |-> 0]
    /\ timer = [q \in Reqs |-> "unarmed"]
    /\ ctxDone = [q \in Reqs |-> FALSE]
    /\ notLeader = [q \in Reqs |-> NoReply]
    /\ addr = [q \in Reqs |-> ""]
    /\ calls = [q \in Reqs |-> 0]
    /\ called = [q \in Reqs |-> NoRemote]
    /\ result = [q \in Reqs |-> "none"]
    /\ metrics = [q \in Reqs |-> <<>>]
    /\ redirect = [q \in Reqs |-> NoRemote]

\* NewClient from its first step, with the hub, the remote workers and the
\* reconciler under the events of DetailsConc.
NextNew ==
    \/ Subscribe
    \/ SubscribeFails
    \/ PublishRequest
    \/ PublishFails
    \/ HubAnswers
    \/ Invoke
    \/ SeedFails
    \/ Seed(apiAddrs)
    \/ \E id \in Ids : AddBoot(id)
    \/ NewClientFails
    \/ NewClientReturns
    \/ WorkersConc
    \/ \E d \in DetailsConc, n \in Ids, before \in SUBSET Ids :
           LoopReceiveDying(d, n, before)
    \/ AddStopReturns
    \/ LoopExit
    \/ CallbackError
    \/ \E r \in Remotes : CatacombKill(r)

SpecNew == InitNew /\ [][NextNew]_vars

\* A remote worker driven through the Remote interface: its loop, and
\* SetAddress, Kill and Request called in any order.
NextRemote ==
    \/ \E r \in Remotes : DialSucceeds(r)
    \/ \E r \in Remotes : ConnectStopped(r)
    \/ \E r \in Remotes : BackoffElapsed(r)
    \/ \E r \in Remotes : LoopDying(r)
    \/ \E r \in Remotes, a \in Addrs : SetAddress(r, a)
    \/ \E r \in Remotes : Kill(r)
    \/ \E r \in Remotes, done \in BOOLEAN : Request(r, done)
    \/ \E r \in Remotes : ConnectionLost(r)

SpecRemote == Init /\ [][NextRemote]_vars

\* SpecRemote with the scheduling of the Go runtime and an address that
\* accepts: a step of the remote's goroutine that can be taken is taken, a
\* dial that is tried succeeds.
FairRemote ==
    /\ SpecRemote
    /\ \A r \in Remotes :
           /\ WF_vars(DialSucceeds(r))
           /\ WF_vars(ConnectStopped(r))
           /\ WF_vars(BackoffElapsed(r))
           /\ WF_vars(LoopDying(r))

\* ------------------------------------------------------------------------
\* Properties
\* ------------------------------------------------------------------------

\* C1: once the forward-timeout timer has fired, a Client.Request that is
\* suspended in its candidate's transport call stops waiting for it (and
\* returns Timeout) even if the transport call never returns.
C1_ReturnsAfterForwardTimeout ==
    \A q \in Reqs :
        (pc[q] = "inflight" /\ timer[q] = "fired") ~> (pc[q] # "inflight")

\* C2: a Client.Request makes at most 3 transport calls (Remote.Request
\* invocations), whatever the remotes reply and however reconciliation
\* interleaves.
C2_AtMostThreeCalls ==
    \A q \in Reqs : calls[q] <= 3

C2_Witness ==
    \E q \in Reqs : calls[q] = 3 /\ pc[q] = "done" /\ snapshots > 0

\* C3: once the fired forward-timeout timer has been observed at the start
\* of an attempt, the Client.Request makes no transport call, does not
\* return ok, and returns Timeout.
C3_ObservedTimeoutIsFinal ==
    \A q \in Reqs :
        timer[q] = "drained" =>
            /\ pc[q] \notin {"inflight", "setleader", "success", "select"}
            /\ pc[q] = "done" => result[q] = "Timeout"

\* C4: once ctx is cancelled, a Client.Request that is suspended in its
\* candidate's transport call is aborted even if the transport call never
\* completes.
C4_CancelAbortsTransportCall ==
    \A q \in Reqs :
        (pc[q] = "inflight" /\ ctxDone[q]) ~> (pc[q] # "inflight")

\* C5: once Client.Request has observed that ctx is done (at the start of an
\* attempt, where it records "delivery timeout", or during the delay between
\* attempts), it makes no further transport call and returns Timeout.
C5_CtxDoneGivesTimeout ==
    \A q \in Reqs :
        (\E n \in 1..Len(metrics[q]) : metrics[q][n] = "delivery timeout") =>
            /\ pc[q] \notin {"inflight", "setleader", "success", "select"}
            /\ pc[q] = "done" => result[q] = "Timeout"

\* C6 as stated: whenever a candidate replies NotLeader with an empty server
\* address, Client.Request returns Dropped at once, with no further
\* transport call, whether or not a Remote can be found for the redirect.
C6_EmptyAddressAlwaysDrops ==
    [][\A q \in Reqs :
        (pc[q] = "select" /\ pc'[q] # "select" /\ notLeader[q].addr = "") =>
            (pc'[q] = "done" /\ result'[q] = "Dropped")]_vars

\* C6: whenever a candidate replies NotLeader with an empty server address
\* and the redirect finds no Remote (the ServerID is not a key of servers and
\* no Remote of servers has an address other than the failed candidate's),
\* Client.Request returns Dropped at once, with no further transport call.
C6_EmptyAddressDropsWithoutRemote ==
    [][\A q \in Reqs :
        (/\ pc[q] = "select" /\ pc'[q] # "select"
         /\ notLeader[q].addr = ""
         /\ notLeader[q].id \notin Keys(servers)
         /\ \A r \in Values(servers) : rAddr[r] = addr[q]) =>
            (pc'[q] = "done" /\ result'[q] = "Dropped" /\ calls'[q] = calls[q])]_vars

C6_Witness ==
    \E q \in Reqs :
        /\ pc[q] = "done" /\ result[q] = "Dropped"
        /\ remote[q] = NoRemote /\ calls[q] = 1
        /\ lastWriter = q

\* C7: after a NotLeader reply whose ServerID is a key of servers, the next
\* attempt of the Request is made against servers[ServerID], whatever address
\* the error carries.
C7_RedirectToKnownLeader ==
    \A q \in Reqs : redirect[q] # NoRemote => remote[q] = redirect[q]

C7_Witness ==
    \E q \in Reqs :
        /\ pc[q] = "inflight" /\ calls[q] = 2
        /\ redirect[q] # NoRemote /\ remote[q] = redirect[q]
        /\ Cardinality(Keys(servers)) = 2

\* C8: after a NotLeader reply whose ServerID is not a key of servers, a
\* Remote chosen as the fallback is a member of servers and its address
\* differs from the address of the candidate that just failed.
C8_FallbackHasOtherAddress ==
    [][\A q \in Reqs :
        (/\ pc[q] = "select" /\ pc'[q] # "select"
         /\ notLeader[q].id \notin Keys(servers)
         /\ remote'[q] # NoRemote) =>
            (remote'[q] \in Values(servers) /\ rAddr[remote'[q]] # addr[q])]_vars

C8_Witness ==
    \E q \in Reqs :
        /\ pc[q] = "delay" /\ calls[q] = 1
        /\ lastWriter = q /\ lastKnownRemote = NoRemote
        /\ redirect[q] = NoRemote /\ remote[q] # NoRemote
        /\ Cardinality(Values(servers)) = 2

\* C9 as stated: whenever a Client.Request returns ok, lastKnownRemote is
\* the Remote whose transport call succeeded for it, also with other
\* Requests running concurrently.
C9_OkImpliesLastKnownRemote ==
    [][\A q \in Reqs :
        (pc[q] = "success" /\ pc'[q] = "done") => lastKnownRemote' = remote[q]]_vars

\* C9: whenever a Client.Request returns ok, lastKnownRemote is the Remote
\* whose transport call succeeded for it, unless another Request has
\* assigned lastKnownRemote since this Request did.
C9_OkImpliesLastKnownRemoteUnlessOverwritten ==
    [][\A q \in Reqs :
        (pc[q] = "success" /\ pc'[q] = "done" /\ lastWriter = q) =>
            lastKnownRemote' = remote[q]]_vars

C9_Witness ==
    \E q, p \in Reqs :
        /\ q # p
        /\ pc[q] = "done" /\ result[q] = "ok"
        /\ lastWriter = q /\ lastKnownRemote = remote[q]
        /\ pc[p] \notin {"idle", "done"}
        /\ snapshots > 0

\* C10: handling a NotLeader reply sets lastKnownRemote to nil, whatever the
\* redirect then finds.
C10_NotLeaderClearsLastKnownRemote ==
    [][\A q \in Reqs :
        (pc[q] = "select" /\ pc'[q] # "select") => lastKnownRemote' = NoRemote]_vars

C10_Witness ==
    \E q, p \in Reqs :
        /\ q # p
        /\ result[p] = "ok"
        /\ lastWriter = q /\ lastKnownRemote = NoRemote
        /\ remote[q] = remote[p]

\* C11: a Client.Request that has returned has recorded exactly one metric,
\* with a label of {"success", "delivery timeout", "error"}; one that
\* returned ok has recorded "success" and nothing else.
C11_OneMetricPerRequest ==
    \A q \in Reqs :
        pc[q] = "done" =>
            /\ Len(metrics[q]) = 1
            /\ metrics[q][1] \in {"success", "delivery timeout", "error"}
            /\ result[q] = "ok" => metrics[q] = <<"success">>

\* C12: when remote.Request is invoked on a candidate that has no client
\* attached, it returns ErrDropped and Client.Request returns Dropped with
\* that attempt: no retry and no redirect follow.
C12_NoClientDropsAtOnce ==
    [][\A q \in Reqs :
        (/\ pc[q] = "attempt" /\ calls'[q] = calls[q] + 1
         /\ rApi[remote[q]] = "nil") =>
            (pc'[q] = "done" /\ result'[q] = "Dropped" /\ remote'[q] = remote[q])]_vars

C12_Witness ==
    \E q \in Reqs :
        /\ pc[q] = "done" /\ result[q] = "Dropped"
        /\ attempt[q] = 1 /\ calls[q] = 1
        /\ remote[q] # NoRemote /\ rApi[remote[q]] = "nil"
        /\ lastWriter = "none"

\* C13: once ensureServers has applied a Details event that has at least
\* one id with a preferred address (and loop is back in its select), the keys
\* of Client.servers are exactly the ids of the event that have a non-empty
\* preferred address, whatever the keys were before.
C13_KeysAreSnapshotIds ==
    (loopPc = "recv" /\ \E id \in Ids : received[id] # "") =>
        Keys(servers) = { id \in Ids : received[id] # "" }

C13_Witness ==
    /\ loopPc = "recv"
    /\ received["0"] = "" /\ received["A"] # ""
    /\ Keys(servers) = {"A"}

\* C14: a Details event in which no id has a preferred address leaves
\* Client.servers and every remote as they were (no remote is created,
\* killed, removed or given an address) and loop goes on receiving.
C14_UnusableSnapshotIgnored ==
    [][(snapshots' = snapshots + 1 /\ \A id \in Ids : received'[id] = "") =>
           /\ UNCHANGED <<servers, remoteVars, nextRemote, attached, reaped>>
           /\ UNCHANGED <<mutex, catacomb>>
           /\ loopPc' = "recv"]_vars

C14_Witness ==
    /\ snapshots > 0
    /\ \A id \in Ids : received[id] = ""
    /\ loopPc = "recv"
    /\ Keys(servers) = {"0"} /\ rAddr[servers["0"]] = "a1"

\* C15: ensureServers kills the remote of an id that is not in the event
\* before it waits for it, and a Wait that returns an error is logged
\* without killing the Client.
C15_WaitErrorDoesNotKillClient ==
    /\ evicting # "none" => rDying[awaited]
    /\ logged => catacomb # "wait"

\* C16: after Close has killed the catacomb, Close returns (loop has
\* returned and every attached remote has terminated), also when a remote is
\* retrying its connect against an address that never accepts.
C16_CloseReturns ==
    (closePc = "waiting") ~> (closePc = "returned")

\* C17: a remote that is killed while it is in connect leaves connect and
\* its loop terminates.
C17_KillStopsConnect ==
    \A r \in Remotes :
        (rDying[r] /\ rLoop[r] = "connect") ~> (rLoop[r] = "dead")

\* C18: a remote that has been killed and whose loop has terminated holds
\* no open connection.
C18_DeadRemoteHoldsNoConnection ==
    \A r \in Remotes : rLoop[r] = "dead" => rApi[r] # "open"

\* C19 as stated: once NewClient has returned the Client, every remote of
\* Client.servers has been attached to the catacomb.
C19_RemotesAttached ==
    newPc = "done" =>
        \A id \in Ids : servers[id] # NoRemote => servers[id] \in attached

\* C19: once NewClient has returned the Client, every remote of
\* Client.servers has been attached to the catacomb, or was refused by the
\* dying catacomb and killed by it.
C19_RemotesAttachedOrStopped ==
    newPc = "done" =>
        \A id \in Ids : servers[id] # NoRemote =>
            \/ servers[id] \in attached
            \/ Dying /\ servers[id] \in reaped /\ rDying[servers[id]]

C19_Witness ==
    /\ newPc = "done"
    /\ snapshots > 0
    /\ \E id \in Ids : servers[id] # NoRemote /\ servers[id] \notin attached
    /\ \E id \in Ids : servers[id] # NoRemote /\ servers[id] \in attached

\* C20: when ensureServers applies an event, the remote of an id that is in
\* Client.servers and has a preferred address in the event stays the same
\* instance, is not killed, closed, restarted or attached again, and is not
\* chosen for eviction; a reconciliation that goes through has given it the
\* preferred address.
C20_KeptRemoteUntouched ==
    [][/\ snapshots' = snapshots + 1 =>
            \A id \in Ids :
                (received'[id] # "" /\ servers[id] # NoRemote) =>
                    /\ servers'[id] = servers[id]
                    /\ rDying'[servers[id]] = rDying[servers[id]]
                    /\ rApi'[servers[id]] = rApi[servers[id]]
                    /\ rLoop'[servers[id]] = rLoop[servers[id]]
                    /\ (servers[id] \in attached') = (servers[id] \in attached)
                    /\ rAddr'[servers[id]] \in {rAddr[servers[id]], received'[id]}
                    /\ loopPc' \in {"recv", "evict"} =>
                           rAddr'[servers[id]] = received'[id]
       /\ (evicting' # evicting /\ evicting' # "none") => received[evicting'] = ""]_vars

C20_Witness ==
    /\ snapshots > 0
    /\ servers["0"] = 1
    /\ received["0"] = "b1" /\ rAddr[1] = "b1"
    /\ ~rDying[1] /\ rLoop[1] # "dead"

\* C21: remote.SetAddress with the address the remote has changes nothing:
\* address, api (and client) and stopConnecting are as before and a connect
\* in progress goes on.
C21_SameAddressIsNoOp ==
    [][\A r \in Remotes :
        (/\ probe'.n # probe.n /\ probe'.op = "SetAddress" /\ probe'.r = r
         /\ probe'.arg = rAddr[r]) =>
            /\ rAddr'[r] = rAddr[r] /\ rApi'[r] = rApi[r]
            /\ rStop'[r] = rStop[r] /\ rLoop'[r] = rLoop[r]
            /\ rLive'[r] = rLive[r] /\ rDying'[r] = rDying[r]]_vars

C21_Witness ==
    /\ probe.n = 1 /\ probe.op = "SetAddress" /\ probe.arg = "a1"
    /\ rAddr[probe.r] = "a1"
    /\ rLoop[probe.r] = "connect" /\ rStop[probe.r] = "open"

\* C22: remote.SetAddress with another address closes stopConnecting if and
\* only if no api is attached and a connect is in progress that has not been
\* stopped yet (so a connect is stopped at most once); the address of the
\* remote is the new one in every case.
C22_DifferentAddressStopsConnect ==
    [][\A r \in Remotes :
        (/\ probe'.n # probe.n /\ probe'.op = "SetAddress" /\ probe'.r = r
         /\ probe'.arg # rAddr[r]) =>
            /\ rAddr'[r] = probe'.arg
            /\ (rStop[r] # "closed" /\ rStop'[r] = "closed")
                   <=> (rApi[r] = "nil" /\ rLoop[r] = "connect" /\ rStop[r] # "closed")
            /\ rStop'[r] # rStop[r] => rStop'[r] = "closed"]_vars

C22_Witness ==
    /\ probe.n = 2 /\ probe.op = "SetAddress" /\ probe.arg = "a1"
    /\ rAddr[probe.r] = "a1"
    /\ rLoop[probe.r] = "connect" /\ rStop[probe.r] = "closed"

C24_AddressChangeClosesConnection ==
    [][\A r \in Remotes :
        (/\ probe'.n # probe.n /\ probe'.op = "SetAddress" /\ probe'.r = r
         /\ probe'.arg # rAddr[r] /\ rApi[r] = "open") =>
            rApi'[r] # "open"]_vars

\* C25: a remote has at most one connection that it has opened and not
\* closed, whatever connects, SetAddress calls and Kill calls came before.
C25_AtMostOneLiveConnection ==
    \A r \in Remotes : rLive[r] <= 1

C25_Witness ==
    \E r \in Remotes :
        /\ rLive[r] = 1 /\ rApi[r] = "open"
        /\ rDying[r] /\ rAddr[r] = "b1"

C27_SubscribedBeforeRequest ==
    /\ hubReq # "none" => sub # "none"
    /\ hubReq # "missed"

\* The reply to the details request went to the subscribed handler.
C27_Witness ==
    /\ hubReq = "answered"
    /\ sub = "subscribed"
    /\ newPc \notin {"subscribe", "publish"}

\* C28: NewClient with an empty APIInfo.Addrs never gets past initServers:
\* it fails with NotFound "api addresses" and the subscription to the
\* details topic has been released.
C28_EmptyAddrsNotFound ==
    (Len(apiAddrs) = 0 /\ newPc \notin {"subscribe", "publish", "invoke", "seed", "huberr"})
        => (newPc = "notfound" /\ sub = "released")

\* NewClient failed in initServers on an empty address list.
C28_Witness ==
    /\ Len(apiAddrs) = 0
    /\ newPc = "notfound"
    /\ sub = "released"
    /\ servers = [k \in Ids |-> NoRemote]

\* C29: when NewClient has failed in initServers or in catacomb.Add, the
\* subscription is released, the goroutine running Client.loop has ended
\* and every remote that was created has been killed.
C29_FailedConstructionReleasesAll ==
    newPc \in {"notfound", "failed"}
        => /\ sub = "released"
           /\ loopPc \notin {"recv", "evict", "addstop"}
           /\ \A r \in Remotes : rLoop[r] # "none" => rDying[r]

\* C30: once apiserverDetailsChanged has been called with an error and has
\* killed the catacomb with it, Client.loop returns and every remote added
\* to the catacomb is killed.
C30_CallbackErrorStopsClient ==
    (catacomb = "callback") ~>
        (/\ loopPc \in {"done", "failed"}
         /\ \A r \in attached : rDying[r])

\* C31: when catacomb.Add has refused the remote ensureServers created,
\* ensureServers returns (the mutex is released), Client.loop returns that
\* error and does not receive again, the subscription is released and the
\* catacomb is dying; from then on every remote added to the catacomb gets
\* killed.
C31_AttachFailureEndsClient ==
    /\ [][loopPc = "addstop" /\ loopPc' # "addstop" =>
            /\ loopPc' = "failed"
            /\ mutex' = "free"
            /\ sub' = "released"
            /\ catacomb' # "alive"]_vars
    /\ [][loopPc = "failed" => loopPc' = "failed"]_vars
    /\ (loopPc = "failed") ~> (\A r \in attached : rDying[r])

\* catacomb.Add has failed in ensureServers, loop has returned and the
\* remotes of the Client have been killed.
C31_Witness ==
    /\ loopPc = "failed"
    /\ sub = "released"
    /\ mutex = "free"
    /\ catacomb # "alive"
    /\ attached # {}
    /\ \A r \in attached : rDying[r]
    /\ \E k \in Keys(servers) : servers[k] \notin attached

\* C32: client.servers and lastKnownRemote are only written by the holder of
\* the mutex: while ensureServers holds it, no step of another task (the
\* seeding of NewClient included) changes client.servers.
C32_MutationsUnderMutex ==
    [][(mutex = "loop" /\ servers' # servers) =>
            (loopPc' # loopPc \/ evicting' # evicting)]_vars

\* C33: once NewClient has returned and ensureServers has applied a Details
\* event, no remote that initServers created is left in client.servers.
C33_BootRemotesDisplaced ==
    LET seeded == { initServers(apiAddrs)[k] : k \in Ids } \ {NoRemote}
    IN (newPc = "done" /\ witnessed # {} /\ loopPc = "recv")
           => Values(servers) \cap seeded = {}

\* C34: the api a remote attaches is one to the address the remote has at
\* that time: after SetAddress has cancelled a connect, the connection that
\* gets attached is not one to the old address.
C34_BindsNewAddress ==
    [][\A r \in Remotes :
        (rApi[r] = "nil" /\ rApi'[r] = "open") => rTarget'[r] = rAddr'[r]]_vars

\* C35: a remote whose connection has failed gets a fresh connection
\* attached, unless it is killed.
C35_ReconnectsAfterLoss ==
    \A r \in Remotes :
        (rApi[r] = "broken") ~> (rApi[r] = "open" \/ rDying[r])

\* C36: a Client.Request never calls Remote.Request on the remote it called
\* with its previous attempt.
C36_NextAttemptOtherRemote ==
    [][\A q \in Reqs :
        (calls'[q] = calls[q] + 1 /\ calls[q] > 0) => called'[q] # called[q]]_vars

\* C37: every attempt of a Client.Request has a remote to call: Func never
\* runs with a nil candidate.
C37_CandidateNeverNil ==
    \A q \in Reqs :
        /\ pc[q] = "attempt" => remote[q] # NoRemote
        /\ result[q] # "panic"

\* C38: ensureServers always returns: the mutex it holds while it evicts
\* remotes is released again, also when the evicted remote never connects.
C38_ReconciliationReleasesMutex ==
    (mutex = "loop" /\ loopPc = "evict") ~> (mutex = "free")

\* C39: when a Client.Request calls Remote.Request, the remote it calls is
\* one of client.servers: it has not been evicted by ensureServers before.
C39_NoCallToEvictedRemote ==
    [][\A q \in Reqs :
        calls'[q] = calls[q] + 1 => called'[q] \in Values(servers)]_vars

\* C40: once NewClient has returned the Client, client.servers is never
\* empty, and no Client.Request returns the NotFound error of selectRemote
\* (the one it returns before its first attempt).
C40_ServersNeverEmpty ==
    newPc = "done" =>
        /\ Keys(servers) # {}
        /\ \A q \in Reqs :
               (pc[q] = "done" /\ result[q] = "NotFound") => attempt[q] > 0

\* A Details event has displaced the bootstrap remote and a Client.Request
\* has then taken its candidate from client.servers and called it.
C40_Witness ==
    /\ newPc = "done"
    /\ snapshots > 0
    /\ servers["0"] = NoRemote
    /\ \E q \in Reqs :
           /\ calls[q] > 0
           /\ called[q] = servers["A"]
           /\ called[q] # 1

====
